---------------------------- MODULE Spec2Model ----------------------------
(* A model of src/resampleService.js: the webtask POST endpoint that       *)
(* resamples a JSON time series [[dateText, value], ...] to a calendar     *)
(* frequency (monthEnd, weekEnd, quarterEnd, yearEnd) and reduces every    *)
(* period with min, max or sum.                                            *)
(*                                                                         *)
(* JavaScript values are records tagged by t.  A finite number is kept as  *)
(* hi * 2^53 + lo, so that the 53-bit significand of an IEEE-754 double    *)
(* (the width at which a + b rounds) is part of the model.  A Date is its  *)
(* time value in whole days since 1970-01-01 (local midnight).  A JS       *)
(* exception is a record with threw = TRUE and the Error's message.        *)
EXTENDS Integers, Sequences, FiniteSets

VARIABLES
  FREQUENCY_OPTION_METHOD_INDEX,  \* line 24: option key -> date-fns method
  FUNCTION_OPTION_METHOD_INDEX,   \* line 31: option key -> reducer
  ctx,              \* the request the endpoint handled last
  callbacks,        \* the cb(error, {details}) calls made for that request
  read,             \* how many series entries cleanTimeSeries read for it
  cleanedSeries,    \* line 70: cleanTimeSeries' local, as it was left
  frequencyGroups   \* line 119: applyFunction's local, as it was left

vars == <<FREQUENCY_OPTION_METHOD_INDEX, FUNCTION_OPTION_METHOD_INDEX, ctx,
          callbacks, read, cleanedSeries, frequencyGroups>>

---------------------------------------------------------------------------
(* JavaScript values *)

Undefined == [t |-> "undefined"]
Null == [t |-> "null"]
Infinity == [t |-> "Infinity"]
NaN == [t |-> "NaN"]
Number(hi, lo) == [t |-> "number", hi |-> hi, lo |-> lo]
String(s) == [t |-> "string", iso |-> FALSE, s |-> s]
\* the text "YYYY-MM-DD" with these year, month and day digits
IsoString(y, m, d) == [t |-> "string", iso |-> TRUE, y |-> y, m |-> m, d |-> d]
Array(items) == [t |-> "array", items |-> items]

\* An Error with message prefix + arg, thrown; and a normal return.
Throw(prefix, arg) ==
  [threw |-> TRUE, message |-> [prefix |-> prefix, arg |-> arg]]
Return(value) == [threw |-> FALSE, value |-> value]

---------------------------------------------------------------------------
(* IEEE-754 double arithmetic on hi * 2^53 + lo  (hi >= 0, |lo| < 2^52) *)

RECURSIVE Pow2Floor(_)
\* the largest power of two that is <= n, n >= 1
Pow2Floor(n) == IF n <= 1 THEN 1 ELSE 2 * Pow2Floor(n \div 2)

\* The spacing of doubles around hi * 2^53 + lo: 1 below 2^53, 2 in
\* [2^53, 2^54), 4 in [2^54, 2^55), ...
Ulp(hi, lo) ==
  IF hi = 0 THEN 1
  ELSE IF lo < 0 /\ hi = Pow2Floor(hi) THEN Pow2Floor(hi)
  ELSE 2 * Pow2Floor(hi)

\* round to nearest, ties to even: the rounding of every double operation
RoundToDouble(hi, lo) ==
  LET u == Ulp(hi, lo)
      q == lo \div u
      r == lo % u
      n == IF 2 * r < u THEN q
           ELSE IF 2 * r > u THEN q + 1
           ELSE IF q % 2 = 0 THEN q ELSE q + 1
  IN Number(hi, n * u)

\* ToNumber of the values the model holds (null is 0); its strings are date
\* texts, option names and "abc", none of them a numeral
ToNumber(v) ==
  CASE v.t = "number" -> v
    [] v.t = "Infinity" -> Infinity
    [] v.t = "null" -> Number(0, 0)
    [] OTHER -> NaN   \* undefined, NaN, and a string that is no numeral

LessThan(a, b) == a.hi < b.hi \/ (a.hi = b.hi /\ a.lo < b.lo)

\* a + b on operands that are not strings: the exact sum, rounded once
Plus(a, b) ==
  LET x == ToNumber(a)
      y == ToNumber(b)
  IN CASE x.t = "NaN" \/ y.t = "NaN" -> NaN
       [] x.t = "Infinity" \/ y.t = "Infinity" -> Infinity
       [] OTHER -> RoundToDouble(x.hi + y.hi, x.lo + y.lo)

FirstArg(a, b) == ToNumber(a)

MathMin(a, b) ==
  LET x == ToNumber(a)
      y == ToNumber(b)
  IN CASE x.t = "NaN" \/ y.t = "NaN" -> NaN
       [] x.t = "Infinity" -> y
       [] y.t = "Infinity" -> x
       [] OTHER -> IF LessThan(y, x) THEN y ELSE x

MathMax(a, b) ==
  LET x == ToNumber(a)
      y == ToNumber(b)
  IN CASE x.t = "NaN" \/ y.t = "NaN" -> NaN
       [] x.t = "Infinity" \/ y.t = "Infinity" -> Infinity
       [] OTHER -> IF LessThan(x, y) THEN y ELSE x

\* the global isNaN: ToNumber, then the NaN test
isNaN(v) == ToNumber(v).t = "NaN"

---------------------------------------------------------------------------
(* Dates: the Date object and the date-fns 1.x functions the service calls *)

InvalidDate == [valid |-> FALSE]
Date(day) == [valid |-> TRUE, day |-> day]

\* days since 1970-01-01 of the proleptic Gregorian day y-m-d, 1 <= m <= 12
DaysFromCivil(y, m, d) ==
  LET yy == IF m <= 2 THEN y - 1 ELSE y
      era == yy \div 400
      yoe == yy - era * 400
      mp == (m + 9) % 12
      doy == (153 * mp + 2) \div 5 + d - 1
      doe == yoe * 365 + yoe \div 4 - yoe \div 100 + doy
  IN era * 146097 + doe - 719468

\* the year, month (1..12) and day of month of a day number: the era of 400
\* years and the day of the era, the year of the era, the day of the year
\* counted from 1 March, the month counted from March
CivilOf(y, m, d) == [y |-> y + (IF m <= 2 THEN 1 ELSE 0), m |-> m, d |-> d]

CivilFromMp(y, doy, mp) ==
  CivilOf(y, IF mp < 10 THEN mp + 3 ELSE mp - 9, doy - (153 * mp + 2) \div 5 + 1)

CivilFromDoy(y, doy) == CivilFromMp(y, doy, (5 * doy + 2) \div 153)

CivilFromYoe(era, doe, yoe) ==
  CivilFromDoy(yoe + era * 400, doe - (365 * yoe + yoe \div 4 - yoe \div 100))

CivilFromDoe(era, doe) ==
  CivilFromYoe(era, doe,
               (doe - doe \div 1460 + doe \div 36524 - doe \div 146096) \div 365)

CivilFromDays(z) ==
  CivilFromDoe((z + 719468) \div 146097, (z + 719468) % 146097)

\* ECMAScript MakeDay: month is 0-based and may overflow, date may be <= 0
MakeDay(year, month, date) ==
  DaysFromCivil(year + (month \div 12), (month % 12) + 1, 1) + date - 1

getFullYear(date) == CivilFromDays(date.day).y
getMonth(date) == CivilFromDays(date.day).m - 1
getDay(date) == (date.day + 4) % 7   \* 0 is Sunday; 1970-01-01 was a Thursday

\* dateFns.parse of a string (date-fns 1.x: one argument): the digits of an
\* ISO calendar date go through setUTCFullYear(year, month, day), any other
\* text falls through to new Date(text), an Invalid Date
parse(dateRaw) ==
  CASE dateRaw.t = "string" /\ dateRaw.iso ->
         Date(MakeDay(dateRaw.y, dateRaw.m - 1, dateRaw.d))
    [] dateRaw.t = "string" /\ ~dateRaw.iso -> InvalidDate

\* dateFns.format(date, 'YYYY-MM-DD')
format(date) ==
  LET c == CivilFromDays(date.day) IN IsoString(c.y, c.m, c.d)

lastDayOfMonthOffByOne(date) ==
  Date(MakeDay(getFullYear(date), getMonth(date) + 1, 1))

\* date.setFullYear(date.getFullYear(), month + 1, 0)
lastDayOfMonth(date) ==
  Date(MakeDay(getFullYear(date), getMonth(date) + 1, 0))

\* weekStartsOn defaults to 0 (Sunday): the week ends on Saturday
lastDayOfWeek(date) ==
  LET weekStartsOn == 0
      day == getDay(date)
      diff == (IF day < weekStartsOn THEN -7 ELSE 0) + 6 - (day - weekStartsOn)
  IN Date(date.day + diff)

\* date.setMonth(currentMonth - currentMonth % 3 + 3, 0)
lastDayOfQuarter(date) ==
  LET currentMonth == getMonth(date)
  IN Date(MakeDay(getFullYear(date), (currentMonth - (currentMonth % 3)) + 3, 0))

\* date.setFullYear(year + 1, 0, 0)
lastDayOfYear(date) == Date(MakeDay(getFullYear(date) + 1, 0, 0))

---------------------------------------------------------------------------
(* The service (lines 9-171) *)

\* lines 24-29
FrequencyMethods ==
  [monthEnd |-> "lastDayOfMonth", weekEnd |-> "lastDayOfWeek",
   quarterEnd |-> "lastDayOfQuarter", yearEnd |-> "lastDayOfYear"]

\* lines 31-41
FunctionMethods == [min |-> "min", max |-> "max", sum |-> "sum"]

\* obj.hasOwnProperty(key) of a dispatch table
hasOwnProperty(index, key) == key.t = "string" /\ ~key.iso /\ key.s \in DOMAIN index

\* FREQUENCY_OPTION_METHOD_INDEX[resampleFrequency](date), line 103-104
changeFrequencyMethod(resampleFrequency, date) ==
  LET method == FREQUENCY_OPTION_METHOD_INDEX[resampleFrequency.s]
  IN CASE method = "lastDayOfMonth" -> lastDayOfMonth(date)
       [] method = "lastDayOfWeek" -> lastDayOfWeek(date)
       [] method = "lastDayOfQuarter" -> lastDayOfQuarter(date)
       [] method = "lastDayOfYear" -> lastDayOfYear(date)

RECURSIVE reduce(_, _, _, _)
\* values.reduce(callback, acc) from index i on; callback is "min", "max"
\* or "sum" for the three callbacks of lines 32-39
reduce(callback, values, i, acc) ==
  IF i > Len(values) THEN acc
  ELSE reduce(callback, values, i + 1,
              CASE callback = "min" -> MathMin(acc, values[i])
                [] callback = "max" -> MathMax(acc, values[i])
                [] callback = "sum" -> Plus(acc, values[i]))

\* FUNCTION_OPTION_METHOD_INDEX[resampleFunction](values), lines 139-140:
\* min and max reduce without an initial value (the first element starts the
\* fold, and is returned as it is when it is the only one), sum starts at 0
resampleFunctionMethod(resampleFunction, values) ==
  LET method == FUNCTION_OPTION_METHOD_INDEX[resampleFunction.s]
  IN IF method = "sum" THEN reduce("sum", values, 1, Number(0, 0))
     ELSE reduce(method, values, 2, values[1])

validateParamsFunctionFirst(params) ==
  IF params.resampleFunction.t = "undefined"
     \/ ~hasOwnProperty(FUNCTION_OPTION_METHOD_INDEX, params.resampleFunction)
  THEN Throw("Invalid resampleFunction paramter", String(""))
  ELSE IF params.resampleFrequency.t = "undefined"
          \/ ~hasOwnProperty(FREQUENCY_OPTION_METHOD_INDEX, params.resampleFrequency)
  THEN Throw("Invalid resampleFrequency paramter", String(""))
  ELSE Return(Undefined)

\* lines 48-61
validateParams(params) ==
  IF params.resampleFrequency.t = "undefined"
     \/ ~hasOwnProperty(FREQUENCY_OPTION_METHOD_INDEX, params.resampleFrequency)
  THEN Throw("Invalid resampleFrequency paramter", String(""))
  ELSE IF params.resampleFunction.t = "undefined"
          \/ ~hasOwnProperty(FUNCTION_OPTION_METHOD_INDEX, params.resampleFunction)
  THEN Throw("Invalid resampleFunction paramter", String(""))
  ELSE Return(Undefined)

invalidDateErrorNoText(dateRaw) == Throw("Invalid date: ", String(""))

\* line 80
invalidDateError(dateRaw) == Throw("Invalid date: ", dateRaw)

\* line 85
invalidValueError(value) == Throw("Invalid value: ", value)

cleanEntryValueFirst(entry) ==
  LET dateRaw == entry[1]
      value == entry[2]
      date == parse(dateRaw)
  IN IF isNaN(value) THEN invalidValueError(value)
     ELSE IF ~date.valid THEN invalidDateError(dateRaw)
     ELSE Return(<<date, value>>)

\* lines 74-87, the body of cleanTimeSeries' loop: the [date, value] pushed,
\* or the Error thrown
cleanEntry(entry) ==
  LET dateRaw == entry[1]
      value == entry[2]
      date == parse(dateRaw)
  IN IF ~date.valid THEN invalidDateError(dateRaw)
     ELSE IF isNaN(value) THEN invalidValueError(value)
     ELSE Return(<<date, value>>)

RECURSIVE cleanLoop(_, _, _)
\* lines 71-88 from index i on; read is the number of entries read
cleanLoop(timeseries, i, cleaned) ==
  IF i > Len(timeseries)
  THEN [threw |-> FALSE, value |-> cleaned, read |-> Len(timeseries),
        cleaned |-> cleaned]
  ELSE LET e == cleanEntry(timeseries[i])
       IN IF e.threw
          THEN [threw |-> TRUE, message |-> e.message, read |-> i,
                cleaned |-> cleaned]
          ELSE cleanLoop(timeseries, i + 1, Append(cleaned, e.value))

\* lines 69-90
cleanTimeSeries(timeseries) == cleanLoop(timeseries, 1, <<>>)

\* lines 96-110
applyFrequency(resampleFrequency, timeseries) ==
  [i \in 1..Len(timeseries) |->
     LET date == timeseries[i][1]
         value == timeseries[i][2]
         newDate == changeFrequencyMethod(resampleFrequency, date)
         formattedDate == format(newDate)
     IN <<formattedDate, value>>]

staleFrequencyGroups == frequencyGroups

\* line 119: var frequencyGroups = {}.  The object is the sequence of its own
\* properties in creation order, which is the order for (... in ...) follows
\* for keys like "2017-05-31" that are no array index.
newFrequencyGroups == <<>>

\* date in frequencyGroups
hasKey(groups, date) == \E j \in 1..Len(groups) : groups[j].key = date

groupValueOverwrite(groups, date, value) ==
  IF hasKey(groups, date)
  THEN [j \in 1..Len(groups) |->
          IF groups[j].key = date
          THEN [key |-> date, values |-> <<value>>]
          ELSE groups[j]]
  ELSE Append(groups, [key |-> date, values |-> <<value>>])

groupValueNewKeyFirst(groups, date, value) ==
  IF hasKey(groups, date)
  THEN [j \in 1..Len(groups) |->
          IF groups[j].key = date
          THEN [key |-> date, values |-> Append(groups[j].values, value)]
          ELSE groups[j]]
  ELSE <<[key |-> date, values |-> <<value>>]>> \o groups

\* lines 127-131
groupValue(groups, date, value) ==
  IF hasKey(groups, date)
  THEN [j \in 1..Len(groups) |->
          IF groups[j].key = date
          THEN [key |-> date, values |-> Append(groups[j].values, value)]
          ELSE groups[j]]
  ELSE Append(groups, [key |-> date, values |-> <<value>>])

RECURSIVE groupLoop(_, _, _)
\* lines 121-132 from index i on
groupLoop(timeseries, i, groups) ==
  IF i > Len(timeseries) THEN groups
  ELSE groupLoop(timeseries, i + 1,
                 groupValue(groups, timeseries[i][1], timeseries[i][2]))

\* lines 117-145; groups is frequencyGroups as the function leaves it
applyFunction(resampleFunction, timeseries) ==
  LET groups == groupLoop(timeseries, 1, newFrequencyGroups)
  IN [updatedTimeSeries |->
        [j \in 1..Len(groups) |->
           <<groups[j].key,
             resampleFunctionMethod(resampleFunction, groups[j].values)>>],
      groups |-> groups]

\* lines 157-168: the array returned or the Error thrown, with the locals of
\* the passes that ran
resample(timeseries, resampleParams) ==
  LET v == validateParams(resampleParams)
  IN IF v.threw
     THEN [threw |-> TRUE, message |-> v.message, read |-> 0,
           cleaned |-> <<>>, groups |-> <<>>]
     ELSE
       LET c == cleanTimeSeries(timeseries)
       IN IF c.threw
          THEN [threw |-> TRUE, message |-> c.message, read |-> c.read,
                cleaned |-> c.cleaned, groups |-> <<>>]
          ELSE
            LET newFrequencyTimeSeries ==
                  applyFrequency(resampleParams.resampleFrequency, c.value)
                f == applyFunction(resampleParams.resampleFunction,
                                   newFrequencyTimeSeries)
            IN [threw |-> FALSE, value |-> Array(f.updatedTimeSeries),
                read |-> c.read, cleaned |-> c.cleaned, groups |-> f.groups]

---------------------------------------------------------------------------
(* The POST endpoint (lines 176-196) *)

tryResamplePartial(c) ==
  LET r == resample(c.body.items, c.query)
  IN IF r.threw
     THEN [error |-> r.message, resampledSeries |-> Array(r.cleaned), run |-> r]
     ELSE [error |-> Null, resampledSeries |-> r.value, run |-> r]

\* lines 183-187: var resampledSeries stays undefined when resample throws
tryResample(c) ==
  LET r == resample(c.body.items, c.query)
  IN IF r.threw
     THEN [error |-> r.message, resampledSeries |-> Undefined, run |-> r]
     ELSE [error |-> Null, resampledSeries |-> r.value, run |-> r]

\* lines 177-188: error and resampledSeries as line 195 finds them
attempt(c) ==
  IF c.body.t = "undefined"
  THEN [error |-> [prefix |-> "A timeseries must be provided via POST body",
                   arg |-> String("")],
        resampledSeries |-> Undefined,
        run |-> [read |-> 0, cleaned |-> <<>>, groups |-> <<>>]]
  ELSE tryResample(c)

\* module.exports = function (ctx, cb): one synchronous run of the handler,
\* ending in the single cb(error, {details: resampledSeries}) of line 195
module_exports(c) ==
  LET a == attempt(c)
  IN /\ ctx' = c
     /\ callbacks' = <<[error |-> a.error, details |-> a.resampledSeries]>>
     /\ read' = a.run.read
     /\ cleanedSeries' = a.run.cleaned
     /\ frequencyGroups' = a.run.groups
     /\ UNCHANGED <<FREQUENCY_OPTION_METHOD_INDEX, FUNCTION_OPTION_METHOD_INDEX>>

---------------------------------------------------------------------------
(* Requests *)

MaxLen == 3

TwoPow53 == Number(1, 0)

\* [dateText, value] entries: two days of one month, a day of another
\* quarter and a year end of another year; two date texts that are no date;
\* values that are small integers, 2^53, a JSON null, an out-of-range JSON
\* number (1e999, which JSON.parse reads as Infinity) and a string
Entries ==
  { <<IsoString(2017, 5, 5), Number(0, 1)>>,
    <<IsoString(2017, 5, 20), TwoPow53>>,
    <<IsoString(2017, 10, 10), Number(0, 3)>>,
    <<IsoString(2016, 12, 31), Number(0, 2)>>,
    <<String("not-a-date"), Number(0, 1)>>,
    <<IsoString(2017, 5, 5), String("abc")>>,
    <<String("garbage"), String("abc")>>,
    <<IsoString(2017, 5, 20), Infinity>>,
    <<IsoString(2017, 10, 10), Null>> }

Series == UNION {[1..n -> Entries] : n \in 0..MaxLen}

Bodies == {Undefined} \cup {Array(s) : s \in Series}

Frequencies ==
  {Undefined, String("dayEnd")} \cup {String(k) : k \in DOMAIN FrequencyMethods}

Functions ==
  {Undefined, String("avg")} \cup {String(k) : k \in DOMAIN FunctionMethods}

Queries ==
  [resampleFrequency : Frequencies, resampleFunction : Functions]

Contexts == [t : {"request"}, body : Bodies, query : Queries]

Init ==
  /\ FREQUENCY_OPTION_METHOD_INDEX = FrequencyMethods
  /\ FUNCTION_OPTION_METHOD_INDEX = FunctionMethods
  /\ ctx = Undefined
  /\ callbacks = <<>>
  /\ read = 0
  /\ cleanedSeries = <<>>
  /\ frequencyGroups = <<>>

\* The requests that may arrive next.  The handler is synchronous, so calls
\* never overlap and a behaviour is a sequence of calls.  The first request
\* is any request; after a request the client sends it again, sends it with
\* one more entry (a series of Series only, so that no series grows without
\* bound), or feeds the series it got back with the same query.
Arrivals ==
  IF ctx = Undefined THEN Contexts
  ELSE {ctx}
       \cup (IF ctx.body \in Bodies /\ ctx.body.t = "array"
                /\ Len(ctx.body.items) < MaxLen
             THEN {[ctx EXCEPT !.body = Array(Append(ctx.body.items, e))] :
                     e \in Entries}
             ELSE {})
       \cup (IF callbacks[1].details.t = "array"
             THEN {[ctx EXCEPT !.body = callbacks[1].details]}
             ELSE {})

Next == \E c \in Arrivals : module_exports(c)

Spec == Init /\ [][Next]_vars

---------------------------------------------------------------------------
(* What the claims speak of *)

Handled == ctx # Undefined
Response == callbacks[1]
HasSeries == Handled /\ ctx.body.t = "array"
Items == ctx.body.items
Succeeded == HasSeries /\ Response.error = Null

RecognizedFrequencies ==
  {String("monthEnd"), String("weekEnd"), String("quarterEnd"), String("yearEnd")}
RecognizedFunctions == {String("min"), String("max"), String("sum")}
FrequencyOk == ctx.query.resampleFrequency \in RecognizedFrequencies
FunctionOk == ctx.query.resampleFunction \in RecognizedFunctions
OptionsOk == FrequencyOk /\ FunctionOk

FrequencyError ==
  [prefix |-> "Invalid resampleFrequency paramter", arg |-> String("")]
FunctionError ==
  [prefix |-> "Invalid resampleFunction paramter", arg |-> String("")]
DateError(text) == [prefix |-> "Invalid date: ", arg |-> text]
ValueError(raw) == [prefix |-> "Invalid value: ", arg |-> raw]

\* an entry whose date text is no calendar date, whose value coerces to
\* not-a-number, whose value is no finite number
Unparsable(e) == ~e[1].iso
NotANumber(e) == e[2].t \in {"string", "undefined", "NaN"}
NotFinite(e) == e[2].t # "number"
Rejected(e) == Unparsable(e) \/ NotANumber(e)
RejectedAt == {i \in 1..Len(Items) : Rejected(Items[i])}
FirstRejected == CHOOSE i \in RejectedAt : \A j \in RejectedAt : i <= j

\* the period key an entry resolves to under the request's frequency
KeyOf(e) == format(changeFrequencyMethod(ctx.query.resampleFrequency, parse(e[1])))
Keys == {KeyOf(Items[i]) : i \in 1..Len(Items)}
FirstIndex(k) ==
  CHOOSE i \in 1..Len(Items) :
    KeyOf(Items[i]) = k /\ \A j \in 1..(i - 1) : KeyOf(Items[j]) # k

RECURSIVE ValuesOf(_, _)
\* the values of the entries of series that resolve to key k, in input order
ValuesOf(series, k) ==
  IF series = <<>> THEN <<>>
  ELSE (IF KeyOf(Head(series)) = k THEN <<Head(series)[2]>> ELSE <<>>)
       \o ValuesOf(Tail(series), k)

Output == Response.details.items
PairSet(series) == {series[j] : j \in 1..Len(series)}

---------------------------------------------------------------------------
(* The claims *)

\* C1: a successful call returns exactly one pair per distinct period key
\* that some input point resolves to (as many pairs as keys, at most as many
\* as points, no key twice, no key without a point), and the value paired
\* with a key is the chosen reduction of exactly the values of the points
\* that resolve to that key.
C1_OnePairPerPeriod ==
  Succeeded =>
    /\ Len(Output) = Cardinality(Keys)
    /\ Len(Output) <= Len(Items)
    /\ {Output[j][1] : j \in 1..Len(Output)} = Keys
    /\ \A j \in 1..Len(Output) :
         Output[j][2] =
           resampleFunctionMethod(ctx.query.resampleFunction,
                                  ValuesOf(Items, Output[j][1]))

\* three points in two periods, one of them holding two points
C1_Witness ==
  /\ Succeeded
  /\ Len(Items) = 3
  /\ Len(Output) = 2
  /\ ctx.query.resampleFunction = String("sum")
  /\ \E j \in 1..2 : Output[j][2] = Number(0, 4)

\* C2: whatever the series holds, a call whose resampleFrequency is absent
\* or unrecognized fails with the invalid-frequency error, and otherwise a
\* call whose resampleFunction is absent or unrecognized fails with the
\* invalid-function error; no series entry is read and no result returned.
C2_OptionsValidatedFirst ==
  HasSeries =>
    /\ ~FrequencyOk =>
         /\ Response.error = FrequencyError
         /\ read = 0
         /\ Response.details = Undefined
    /\ FrequencyOk /\ ~FunctionOk =>
         /\ Response.error = FunctionError
         /\ read = 0
         /\ Response.details = Undefined

\* both options unrecognized, and a series whose first entry is malformed
C2_Witness ==
  /\ HasSeries
  /\ ctx.query.resampleFrequency = String("dayEnd")
  /\ ctx.query.resampleFunction = Undefined
  /\ Len(Items) >= 2
  /\ Unparsable(Items[1])
  /\ NotANumber(Items[2])
  /\ Response.error = FrequencyError

\* C8: normalization reads the series in input order and stops at the first
\* entry it rejects: the error is that of the lowest-index rejected entry,
\* the date check coming before the value check, and no later entry is read;
\* with no rejected entry the normalized series has the input's length and
\* order.
C8_StopsAtFirstRejected ==
  HasSeries /\ OptionsOk =>
    IF RejectedAt = {}
    THEN /\ read = Len(Items)
         /\ Len(cleanedSeries) = Len(Items)
         /\ \A i \in 1..Len(Items) :
              /\ format(cleanedSeries[i][1]) = Items[i][1]
              /\ cleanedSeries[i][2] = Items[i][2]
    ELSE /\ read = FirstRejected
         /\ Len(cleanedSeries) = FirstRejected - 1
         /\ Response.error =
              IF Unparsable(Items[FirstRejected])
              THEN DateError(Items[FirstRejected][1])
              ELSE ValueError(Items[FirstRejected][2])

\* the second entry has a bad date and a bad value, the third is bad too
C8_Witness ==
  /\ HasSeries /\ OptionsOk
  /\ Len(Items) = 3
  /\ RejectedAt = {2, 3}
  /\ Unparsable(Items[2]) /\ NotANumber(Items[2])
  /\ read = 2

\* C9: the output lists the period keys in the order of their first
\* appearance in the input, not sorted by date.
C9_FirstAppearanceOrder ==
  Succeeded =>
    \A j, k \in 1..Len(Output) :
      j < k => FirstIndex(Output[j][1]) < FirstIndex(Output[k][1])

\* an output whose first key is a later date than its second
C9_Witness ==
  /\ Succeeded
  /\ Len(Output) = 2
  /\ parse(Output[2][1]).day < parse(Output[1][1]).day


\* C3: with recognized options, a series holding an entry whose value is no
\* finite number fails with the invalid-value error; equivalently, whenever
\* a result is returned every value that was grouped for aggregation is a
\* finite number.
C3_OnlyFiniteNumbersAggregated ==
  Succeeded =>
    \A g \in 1..Len(frequencyGroups) :
      \A i \in 1..Len(frequencyGroups[g].values) :
        frequencyGroups[g].values[i].t = "number"

\* C4 as claimed: with recognized options, every entry with an unparsable
\* date text, at whatever index, makes the call fail with the invalid-date
\* error that carries that entry's text, and no result.
C4_AnyUnparsableDateReported ==
  HasSeries /\ OptionsOk =>
    \A i \in 1..Len(Items) :
      Unparsable(Items[i]) =>
        /\ Response.error = DateError(Items[i][1])
        /\ Response.details = Undefined

\* C4 as amended: with recognized options, a series holding an entry with an
\* unparsable date text at any index fails as a whole and returns no result;
\* the error is the invalid-date error carrying that entry's text when no
\* earlier entry is rejected.
C4_FirstUnparsableDateReported ==
  HasSeries /\ OptionsOk =>
    \A i \in 1..Len(Items) :
      Unparsable(Items[i]) =>
        /\ Response.error # Null
        /\ Response.details = Undefined
        /\ (\A j \in 1..(i - 1) : ~Rejected(Items[j])) =>
             Response.error = DateError(Items[i][1])

\* the unparsable date is the last of three entries, after two good ones
C4_Witness ==
  /\ HasSeries /\ OptionsOk
  /\ Len(Items) = 3
  /\ RejectedAt = {3}
  /\ Unparsable(Items[3])
  /\ Response.error = DateError(Items[3][1])

\* the series of Items, reordered by the permutation p of its indices
Permuted(p) == [i \in 1..Len(Items) |-> Items[p[i]]]
Reorderings == {p \in [1..Len(Items) -> 1..Len(Items)] :
                   \A i, j \in 1..Len(Items) : p[i] = p[j] => i = j}
AllFinite == \A i \in 1..Len(Items) : ~NotFinite(Items[i])
SameAnswerInAnyOrder ==
  \A p \in Reorderings :
    LET r == resample(Permuted(p), ctx.query)
    IN ~r.threw /\ PairSet(r.value.items) = PairSet(Output)

\* C5 as claimed: for a series of finite numbers, resampling any permutation
\* of it with the same frequency and function (min, max or sum) gives the
\* same set of (key, value) pairs.
C5_OrderIndependent ==
  Succeeded /\ AllFinite => SameAnswerInAnyOrder

\* the sum of the magnitudes of the series' values is at most 2^53, so that
\* every partial sum, in any order, is an integer a double holds exactly
SumsExactly ==
  \/ \A i \in 1..Len(Items) : Items[i][2].hi = 0
  \/ \E i \in 1..Len(Items) :
       /\ Items[i][2] = TwoPow53
       /\ \A j \in 1..Len(Items) : j # i => Items[j][2] = Number(0, 0)

\* C5 as amended: the same, for min and max, and for sum when the values
\* are integers whose magnitudes add up to at most 2^53.
C5_OrderIndependentWhenExact ==
  Succeeded /\ AllFinite
    /\ (ctx.query.resampleFunction = String("sum") => SumsExactly)
  => SameAnswerInAnyOrder

\* three different values in one period, reduced by min
C5_Witness ==
  /\ Succeeded /\ AllFinite
  /\ ctx.query.resampleFunction = String("min")
  /\ Len(Items) = 3
  /\ Len(Output) = 1
  /\ Items[1][2] # Items[2][2] /\ Items[2][2] # Items[3][2]
  /\ Items[1][2] # Items[3][2]

\* C6: fed back with the same frequency and function, the output resolves
\* every pair to the key it carries, so that every group holds one value,
\* and the second pass returns the pairs of the first.
C6_Idempotent ==
  Succeeded =>
    LET again == resample(Output, ctx.query)
    IN /\ ~again.threw
       /\ \A j \in 1..Len(Output) : KeyOf(Output[j]) = Output[j][1]
       /\ \A g \in 1..Len(again.groups) : Len(again.groups[g].values) = 1
       /\ again.value.items = Output

\* a sum over two periods, one of which merged two points
C6_Witness ==
  /\ Succeeded
  /\ ctx.query.resampleFunction = String("sum")
  /\ Len(Items) = 3
  /\ Len(Output) = 2
  /\ \E j \in 1..3 : Items[j][1] \notin {Output[k][1] : k \in 1..2}

\* C7: calls share no state: the grouping structure a call leaves holds the
\* values of that call's series only, the dispatch tables are what they were
\* at initialization, and a request sent again gets the answer it got.
C7_NoSharedState ==
  /\ [](/\ FREQUENCY_OPTION_METHOD_INDEX = FrequencyMethods
        /\ FUNCTION_OPTION_METHOD_INDEX = FunctionMethods
        /\ Succeeded =>
             /\ {frequencyGroups[g].key : g \in 1..Len(frequencyGroups)} = Keys
             /\ \A g \in 1..Len(frequencyGroups) :
                  frequencyGroups[g].values =
                    ValuesOf(Items, frequencyGroups[g].key)
        /\ ~Succeeded => frequencyGroups = <<>>)
  /\ [][Handled /\ ctx' = ctx => callbacks' = callbacks]_vars

\* a call that cannot be the first: its series is an earlier call's output
C7_Witness ==
  /\ Succeeded
  /\ ctx.body \notin Bodies
  /\ Len(frequencyGroups) = 2

\* C10: the callback is called once per request; a request that fails (no
\* body, an unrecognized option, a rejected entry) gets an error message and
\* no result, never a part of one; a request that succeeds gets a null error
\* and the whole resampled series.
C10_AllOrNothing ==
  Handled =>
    /\ Len(callbacks) = 1
    /\ (\/ ctx.body = Undefined
        \/ ~OptionsOk
        \/ RejectedAt # {}) =>
         /\ Response.error # Null
         /\ Response.error.prefix \in STRING
         /\ Response.details = Undefined
    /\ Response.error # Null => Response.details = Undefined
    /\ Response.error = Null =>
         /\ Response.details.t = "array"
         /\ {Output[j][1] : j \in 1..Len(Output)} = Keys

\* a failure at the third entry, after two entries were normalized
C10_Witness ==
  /\ HasSeries /\ OptionsOk
  /\ Len(Items) = 3
  /\ Len(cleanedSeries) = 2
  /\ Response.error # Null
  /\ Response.details = Undefined

===========================================================================
